---- MODULE Spec2Model ----
(***************************************************************************)
(* Model of the officials bonus/malus program (officiels_from_ffnex.py).   *)
(*                                                                         *)
(* The specifications of the module:                                       *)
(*   SpecPoints    the scoring rule of Reunion.points as a function of its *)
(*                 inputs (level, team size, participations, officials);   *)
(*   Spec          one master session of a batch run: the link merges of   *)
(*                 the main script, then points() called on demand with or *)
(*                 without a rationale list, with its two caches;          *)
(*   SpecOnDemand  the same session as an object: the merge of a linked    *)
(*                 session and points() taken in any order;                *)
(*   SpecBatch     a run of the main script over three files: the link     *)
(*                 loop, the report loop, the club pages and the           *)
(*                 competition pages;                                      *)
(*   SpecJudges    the JUDGE entries of the sessions of one file, read one *)
(*                 by one into the session records of the officials;       *)
(*   SpecLooseJudges  the same with entries that name an unknown official  *)
(*                 or an unknown duty;                                     *)
(*   SpecReduce    the results of one file and the final reduction of the  *)
(*                 tallies, which may be run again;                        *)
(*   SpecResults   the RESULT elements of a one-session file with their    *)
(*                 club ids, finals and disqualification codes;            *)
(*   SpecFiles     the files of the command line: parsing, the check of    *)
(*                 the duplicated ids, then the links and the reports.     *)
(***************************************************************************)
EXTENDS Integers, Sequences, FiniteSets, TLC

VARIABLES
    \* ---- SpecPoints: one scoring scenario
    scn,            \* inputs: [dep, pe, part, offs], and the official taken away
    scn_phase,      \* "input" | "scored" | "added" | "removed"
    scn_res,        \* result of points() on scn
    scn_base,       \* result before one more official was added
    \* ---- Spec: a master session (Reunion) of a competition
    departemental,  \* Competition.departemental()
    par_equipe,     \* Competition.par_equipe (1 = individual, else team size)
    participations, \* Reunion.participations: club -> count
    officiels,      \* Reunion.officiels: official id -> session copy
    opc,            \* Reunion._officiels_per_club: <<>> (None) or <<club -> ids>>
    pts,            \* Reunion.pts: club -> cached score
    details,        \* Reunion.details: club -> cached rationale
    pending,        \* linked competitions the main script has still to merge
    basis,          \* history: club -> what the call that wrote pts[club] read
    ret,            \* what the last points() call gave back to its caller
    \* ---- SpecBatch: a run of the main script over several files
    feed,           \* the input: args.competition (0 = none) and the files
    reunions,       \* competition id -> Competition.reunions
    club_competitions, \* club -> Club.competitions
    linked,         \* competition id -> Competition.linked
    run,            \* where the script is: aborted, and the loops still to run
    raw_df,         \* the rows of the spreadsheet
    points_total,   \* the dict `points` of the level: totals and club points
    club_pages,     \* club -> total of points printed on the club's page
    comp_pages,     \* competition id -> its pages, one per session
    \* ---- SpecJudges: the JUDGE entries of one file
    eleves,         \* conf.eleves: official id -> sessions before the Chrono date
    judges_in,      \* the JUDGE entries of the file, in order
    judges,         \* the JUDGE entries still to read
    heap,           \* the Officiel objects, by reference
    catalog,        \* the dict `officiels` of the file: id -> reference
    jury,           \* session -> reunion.officiels: id -> reference
    club_officiels, \* Club.officiels: official id -> session -> duty
    judge_log,      \* the warnings and errors logged: <<what is wrong, id, role>>
    crashed,        \* an exception left Competition.__init__
    \* ---- SpecReduce: the results of one file
    results,        \* the RESULT entries still to read
    team_size,      \* Competition.par_equipe
    tally,          \* session -> club -> the tallies of the session
    reduce_log,     \* history: the tallies after each run of the reduction
    \* ---- SpecResults: the RESULT elements of one file, club by club
    ffnex,          \* the file: its byteam flag and its RESULT elements
    todo,           \* the RESULT elements still to read
    equipe,         \* Competition.par_equipe, True counting as 1
    counts,         \* club of the list -> the tallies of the session
    results_log,    \* the lines logged while the results are read
    stage,          \* where Competition.__init__ is: size, results, counted, crashed
    \* ---- SpecFiles: the files of the command line
    ffnex_files,    \* the files given to the run, in the order parsed
    unread,         \* the number of the next file to parse
    competitions,   \* the objects appended to the list of the run
    main_log,       \* the lines logged by the run
    outcome         \* parsing, checked, linked, reported, exit, crashed

vars == <<scn, scn_phase, scn_res, scn_base, departemental, par_equipe,
          participations, officiels, opc, pts, details, pending, basis, ret,
          feed, reunions, club_competitions, linked, run, raw_df,
          points_total, club_pages, comp_pages,
          eleves, judges_in, judges, heap, catalog, jury, club_officiels,
          judge_log, crashed,
          results, team_size, tally, reduce_log,
          ffnex, todo, equipe, counts, results_log, stage,
          ffnex_files, unread, competitions, main_log, outcome>>

scnVars == <<scn, scn_phase, scn_res, scn_base>>
sessionVars == <<departemental, par_equipe, participations, officiels, opc,
                 pts, details, pending, basis, ret>>
batchVars == <<feed, reunions, club_competitions, linked, run, raw_df,
               points_total, club_pages, comp_pages>>
judgeVars == <<eleves, judges_in, judges, heap, catalog, jury, club_officiels,
               judge_log, crashed>>
reduceVars == <<results, team_size, tally, reduce_log>>
resultVars == <<ffnex, todo, equipe, counts, results_log, stage>>
mainVars == <<ffnex_files, unread, competitions, main_log, outcome>>

----------------------------------------------------------------------------
(* Bounds of the model *)

MaxPart == 16          \* participations of a club in a scoring scenario
MaxC == 6              \* valid officials below grade B in a scenario
MaxQ == 2              \* valid officials of grade B or above in a scenario
MaxInv == 1            \* officials whose duty does not count at any level
MaxDepOnly == 1        \* officials whose duty counts at department level only
MaxSessionPart == 1    \* participations of a club in one session of one file
MaxOfficiels == 2      \* official ids of the feed
MaxSatellites == 1     \* competitions linked to the master
MaxSessions == 3       \* sessions with races in one file
MaxJudges == 3         \* JUDGE entries in one file
MaxLooseJudges == 2    \* JUDGE entries in one file with dangling references
MaxResults == 3        \* RESULT entries in one file
MaxRuns == 2           \* runs of the final reduction
MaxFeed == 2           \* RESULT elements in one file, read club by club
MaxFiles == 4          \* files on the command line

----------------------------------------------------------------------------
(* Reference catalog (Configuration) *)

\* Niveau.valeur of the grades named "C" and "B" (conf.niveau_c, conf.niveau_b)
NiveauC == 1
NiveauB == 2
NiveauA == 3

\* Team sizes a competition can carry: 1 (individual), or the roster length
\* of the first relay found (2, 4), 10 being the Interclubs special case.
TeamSizes == {1, 2, 4, 10}

Clubs == {"A", "B"}

----------------------------------------------------------------------------
(* Helpers *)

Min(a, b) == IF a < b THEN a ELSE b

\* dict.get(key, default)
Get(d, k, default) == IF k \in DOMAIN d THEN d[k] ELSE default

\* d[k] = v on a dict
Put(d, k, v) == [x \in DOMAIN d \cup {k} |-> IF x = k THEN v ELSE d[x]]

----------------------------------------------------------------------------
(* Reunion.points: the scoring rule *)

\* Variant: the two flags taken the other way round
is_valid_swapped(o, dep) == o.valid[IF dep THEN 2 ELSE 1]

\* Officiel.is_valid(depart): self.valid[0 if depart else 1]
is_valid(o, dep) == o.valid[IF dep THEN 1 ELSE 2]

\* Variants of the rule used to test that the checked properties depend on it.
\* Floor instead of ceiling in the department divisor
NeededFloor(dep, pe, part) ==
    IF dep
    THEN LET num_equipes == part
             p == part * pe
         IN  IF p = 0 THEN <<0, 0>>
             ELSE IF pe = 10 THEN <<num_equipes \div 2, num_equipes>>
             ELSE LET num_officiels == p \div 8
                  IN  <<num_officiels \div 2, num_officiels>>
    ELSE IF pe # 1
    THEN IF part <= 1 THEN <<0, part>> ELSE <<1, Min(3, part)>>
    ELSE IF part <= 1 THEN <<0, 0>>
         ELSE IF part <= 10 THEN <<0, 1>>
         ELSE <<1, 2>>

\* The thresholds of the older officiels.py: "< 10", and teams counted as
\* participations // team size
NeededOld(dep, pe, part) ==
    IF dep
    THEN LET num_equipes == part
             p == part * pe
         IN  IF p = 0 THEN <<0, 0>>
             ELSE IF pe = 10 THEN <<num_equipes \div 2, num_equipes>>
             ELSE LET num_officiels == (p + 7) \div 8
                  IN  <<num_officiels \div 2, num_officiels>>
    ELSE IF pe # 1
    THEN LET t == part \div pe
         IN  IF t <= 1 THEN <<0, t>> ELSE <<1, Min(3, t)>>
    ELSE IF part <= 1 THEN <<0, 0>>
         ELSE IF part < 10 THEN <<0, 1>>
         ELSE <<1, 2>>

\* needed = (number of A/B, total number), lines 742-767
Needed(dep, pe, part) ==
    IF dep
    THEN LET num_equipes == part
             p == part * pe
         IN  IF p = 0 THEN <<0, 0>>
             ELSE IF pe = 10 THEN <<num_equipes \div 2, num_equipes>>
             ELSE LET num_officiels == (p + 7) \div 8
                  IN  <<num_officiels \div 2, num_officiels>>
    ELSE IF pe # 1
    THEN IF part <= 1 THEN <<0, part>> ELSE <<1, Min(3, part)>>
    ELSE IF part <= 1 THEN <<0, 0>>
         ELSE IF part <= 10 THEN <<0, 1>>
         ELSE <<1, 2>>

\* The first line of the rationale: "{} officiels requis[, dont {} A ou B]"
RequisNote(needed) == <<"requis", needed[2], needed[1]>>

\* The counting loop, lines 775-784: offs is the club's list of officials
\* (official id -> session copy).  num counts the valid ones, num_ab those of
\* them whose grade is at least B.
CountNum(offs, dep) == Cardinality({i \in DOMAIN offs : is_valid(offs[i], dep)})

CountAB(offs, dep) ==
    Cardinality({i \in DOMAIN offs :
                    is_valid(offs[i], dep) /\ NiveauB <= offs[i].niveau})

\* The cap of lines 786-789: [num, notes]
Retained(dep, num) ==
    IF ~dep /\ num > 5
    THEN [num |-> 5, notes |-> << <<"retenus", 5, num>> >>]
    ELSE [num |-> num, notes |-> <<>>]

\* Variant: the A/B malus applied whether or not officials are missing
BaremeMalusAlways(num, num_ab, needed) ==
    LET malus == IF num_ab < needed[1] THEN (needed[1] - num_ab) * (-2) ELSE 0
    IN  IF num < needed[2]
        THEN [pts |-> (needed[2] - num) * (-4) + malus, notes |-> <<>>]
        ELSE [pts |-> (num - needed[2]) * 2 + malus, notes |-> <<>>]

\* Variant: a missing official costs 2 points instead of 4, an extra one
\* brings 1 instead of 2
BaremeHalf(num, num_ab, needed) ==
    LET malus == IF num_ab < needed[1] THEN (needed[1] - num_ab) * (-2) ELSE 0
    IN  IF num < needed[2]
        THEN [pts |-> (needed[2] - num) * (-2), notes |-> <<>>]
        ELSE [pts |-> (num - needed[2]) + malus, notes |-> <<>>]

\* The point delta of lines 791-805: [pts, notes]
Bareme(num, num_ab, needed) ==
    IF num < needed[2]
    THEN LET missing == needed[2] - num
             p == missing * (-4)
         IN  [pts |-> p, notes |-> << <<"negatifs", -p, missing>> >>]
    ELSE LET extra == num - needed[2]
             p == extra * 2
             n1 == IF extra > 0 THEN << <<"supplementaires", p, extra>> >> ELSE <<>>
         IN  IF num_ab < needed[1]
             THEN LET missing == needed[1] - num_ab
                  IN  [pts |-> p + missing * (-2),
                       notes |-> n1 \o << <<"malus", missing * 2, 0>> >>]
             ELSE [pts |-> p, notes |-> n1]

\* Variant: the bonus for extra officials credited only when the caller
\* passed a rationale list
PointsComputeBonusInTrail(dep, pe, part, offs, want) ==
    LET needed == Needed(dep, pe, part)
        num0 == CountNum(offs, dep)
        num_ab == CountAB(offs, dep)
        kept == Retained(dep, num0)
        b == Bareme(kept.num, num_ab, needed)
    IN  [pts |-> IF b.pts > 0 /\ ~want THEN 0 ELSE b.pts,
         needed |-> needed,
         num |-> kept.num,
         num_ab |-> num_ab,
         trail |-> IF want THEN <<RequisNote(needed)>> \o kept.notes \o b.notes
                   ELSE <<>>]

\* The computing part of points(), lines 739-805, for a club with `part`
\* participations and the officials `offs`; `want` says whether the caller
\* passed a list (type(details) is list), in which case trail is what the
\* call appends to it.
PointsCompute(dep, pe, part, offs, want) ==
    LET needed == Needed(dep, pe, part)
        num0 == CountNum(offs, dep)
        num_ab == CountAB(offs, dep)
        kept == Retained(dep, num0)
        b == Bareme(kept.num, num_ab, needed)
    IN  [pts |-> b.pts,
         needed |-> needed,
         num |-> kept.num,
         num_ab |-> num_ab,
         trail |-> IF want THEN <<RequisNote(needed)>> \o kept.notes \o b.notes
                   ELSE <<>>]

----------------------------------------------------------------------------
(* SpecPoints: the scoring rule on enumerated inputs *)

\* Session copies of officials as the resolver leaves them
OffC == [valid |-> <<TRUE, TRUE>>, niveau |-> NiveauC]
OffB == [valid |-> <<TRUE, TRUE>>, niveau |-> NiveauB]
OffA == [valid |-> <<TRUE, TRUE>>, niveau |-> NiveauA]
OffInv == [valid |-> <<FALSE, FALSE>>, niveau |-> NiveauB]
OffDepOnly == [valid |-> <<TRUE, FALSE>>, niveau |-> NiveauC]

\* A club's list of officials: nc of grade C, nq of grade B or A, ninv not
\* valid, nd valid at department level only
OffList(nc, nq, ninv, nd) ==
    [i \in 1..(nc + nq + ninv + nd) |->
        IF i <= nc THEN OffC
        ELSE IF i <= nc + nq THEN (IF (i - nc) % 2 = 1 THEN OffB ELSE OffA)
        ELSE IF i <= nc + nq + ninv THEN OffInv
        ELSE OffDepOnly]

\* No official
OffNone == [valid |-> <<FALSE, FALSE>>, niveau |-> 0]

\* list.append
Append1(offs, o) == [i \in 1..(Cardinality(DOMAIN offs) + 1) |->
                        IF i \in DOMAIN offs THEN offs[i] ELSE o]

NoRes == [pts |-> 0, needed |-> <<0, 0>>, num |-> 0, num_ab |-> 0, trail |-> <<>>]

\* No run of the main script
IdleBatch ==
    /\ feed = [sel |-> 0, comp |-> <<>>]
    /\ reunions = <<>>
    /\ club_competitions = <<>>
    /\ linked = <<>>
    /\ run = [aborted |-> FALSE, link |-> <<>>, report |-> <<>>,
              clubs |-> <<>>, pages |-> <<>>]
    /\ raw_df = {}
    /\ points_total = [participations |-> 0, engagements |-> 0, clubs |-> <<>>]
    /\ club_pages = <<>>
    /\ comp_pages = <<>>

\* No file being parsed
IdleJudges ==
    /\ eleves = <<>>
    /\ judges_in = <<>>
    /\ judges = <<>>
    /\ heap = <<>>
    /\ catalog = <<>>
    /\ jury = <<>>
    /\ club_officiels = <<>>
    /\ judge_log = <<>>
    /\ crashed = FALSE

IdleReduce ==
    /\ results = <<>>
    /\ team_size = 1
    /\ tally = <<>>
    /\ reduce_log = <<>>

IdleMain ==
    /\ ffnex_files = <<>>
    /\ unread = 1
    /\ competitions = <<>>
    /\ main_log = <<>>
    /\ outcome = "idle"

IdleResults ==
    /\ ffnex = [byteam |-> FALSE, results |-> <<>>]
    /\ todo = <<>>
    /\ equipe = 1
    /\ counts = <<>>
    /\ results_log = <<>>
    /\ stage = "idle"

IdleSession ==
    /\ departemental = FALSE
    /\ par_equipe = 1
    /\ participations = <<>>
    /\ officiels = <<>>
    /\ opc = <<>>
    /\ pts = <<>>
    /\ details = <<>>
    /\ pending = 0
    /\ basis = <<>>
    /\ ret = [club |-> "none", want |-> FALSE, score |-> 0, trail |-> <<>>,
              had |-> "none", old |-> 0, oldtrail |-> <<>>,
              part |-> 0, left |-> 0, oldpart |-> 0, oldleft |-> 0]

InitPoints ==
    /\ \E dep \in BOOLEAN, pe \in TeamSizes, part \in 0..MaxPart,
          nc \in 0..MaxC, nq \in 0..MaxQ, ninv \in 0..MaxInv, nd \in 0..MaxDepOnly :
          scn = [dep |-> dep, pe |-> pe, part |-> part,
                 offs |-> OffList(nc, nq, ninv, nd), gone |-> OffNone]
    /\ scn_phase = "input"
    /\ scn_res = NoRes
    /\ scn_base = NoRes
    /\ IdleSession
    /\ IdleBatch
    /\ IdleJudges
    /\ IdleReduce
    /\ IdleResults
    /\ IdleMain

\* points(club, details=[]) on the scenario
Evaluate ==
    /\ scn_phase = "input"
    /\ scn_res' = PointsCompute(scn.dep, scn.pe, scn.part, scn.offs, TRUE)
    /\ scn_phase' = "scored"
    /\ UNCHANGED <<scn, scn_base>>
    /\ UNCHANGED <<sessionVars, batchVars, judgeVars, reduceVars, resultVars, mainVars>>

\* The same club with one more valid official, scored again
AddOfficiel(o) ==
    /\ scn_phase = "scored"
    /\ scn' = [scn EXCEPT !.offs = Append1(scn.offs, o)]
    /\ scn_base' = scn_res
    /\ scn_res' = PointsCompute(scn.dep, scn.pe, scn.part, scn'.offs, TRUE)
    /\ scn_phase' = "added"
    /\ UNCHANGED <<sessionVars, batchVars, judgeVars, reduceVars, resultVars, mainVars>>

\* The club's list without its i-th official
Without(offs, i) ==
    [j \in 1..(Cardinality(DOMAIN offs) - 1) |->
        IF j < i THEN offs[j] ELSE offs[j + 1]]

\* The same club without one of its officials, scored again
RemoveOfficiel(i) ==
    /\ scn_phase = "scored"
    /\ i \in DOMAIN scn.offs
    /\ scn' = [scn EXCEPT !.offs = Without(scn.offs, i), !.gone = scn.offs[i]]
    /\ scn_base' = scn_res
    /\ scn_res' = PointsCompute(scn.dep, scn.pe, scn.part, scn'.offs, TRUE)
    /\ scn_phase' = "removed"
    /\ UNCHANGED <<sessionVars, batchVars, judgeVars, reduceVars, resultVars, mainVars>>

NextPoints ==
    \/ Evaluate
    \/ \E o \in {OffC, OffB, OffA} : AddOfficiel(o)
    \/ \E i \in 1..(MaxC + MaxQ + MaxInv + MaxDepOnly) : RemoveOfficiel(i)

SpecPoints == InitPoints /\ [][NextPoints]_vars

----------------------------------------------------------------------------
(* Spec and SpecOnDemand: a master session, its link merges and its caches *)

OfficielIds == 1..MaxOfficiels

\* Home club of an official (OFFICIAL clubid, lines 438-456)
OfficielClub(i) == IF i % 2 = 1 THEN "A" ELSE "B"

\* Session copy of official i (copy.copy, line 533) as set_poste leaves it
SessionCopy(i, o) == [club |-> OfficielClub(i), valid |-> o.valid, niveau |-> o.niveau]

\* Reunion.officiels of one session of one file: official id -> session copy
OfficielDicts ==
    UNION {[S -> {OffC, OffB, OffInv}] : S \in SUBSET OfficielIds}

\* Reunion.participations of one session of one file (lines 512, 640): the
\* keys are the competition's clubs, which hold the club of every official
\* (line 458)
ParticipationDicts(offs) ==
    {d \in UNION {[S -> 0..MaxSessionPart] : S \in SUBSET Clubs} :
        \A i \in DOMAIN offs : OfficielClub(i) \in DOMAIN d}

NoCall == [club |-> "none", want |-> FALSE, score |-> 0, trail |-> <<>>,
           had |-> "none", old |-> 0, oldtrail |-> <<>>,
           part |-> 0, left |-> 0, oldpart |-> 0, oldleft |-> 0]

IdleScenario ==
    /\ scn = [dep |-> FALSE, pe |-> 1, part |-> 0, offs |-> <<>>, gone |-> OffNone]
    /\ scn_phase = "idle"
    /\ scn_res = NoRes
    /\ scn_base = NoRes

\* The master session once its file is parsed (Reunion.__init__, lines
\* 693-705, and Competition.__init__)
Init ==
    /\ departemental \in BOOLEAN
    /\ par_equipe \in TeamSizes
    /\ \E offs \in OfficielDicts :
          /\ officiels = [i \in DOMAIN offs |-> SessionCopy(i, offs[i])]
          /\ participations \in ParticipationDicts(offs)
    /\ opc = <<>>
    /\ pts = <<>>
    /\ details = <<>>
    /\ pending \in 0..MaxSatellites
    /\ basis = <<>>
    /\ ret = NoCall
    /\ IdleScenario
    /\ IdleBatch
    /\ IdleJudges
    /\ IdleReduce
    /\ IdleResults
    /\ IdleMain

\* The link step of the main script for this session (lines 924-940):
\* participations summed per club, officials added when their id is absent
\* Variant: only the clubs the master session already knows are summed
MergeKnownClubs(m, c) == [club \in DOMAIN m |-> m[club] + Get(c, club, 0)]

MergeParticipations(m, c) ==
    [club \in DOMAIN c \cup DOMAIN m |-> Get(m, club, 0) + Get(c, club, 0)]

\* Variant: the satellite's record replaces the master's
MergeOfficielsLastWins(m, c) ==
    [id \in DOMAIN m \cup DOMAIN c |-> IF id \in DOMAIN c THEN c[id] ELSE m[id]]

MergeOfficiels(m, c) ==
    [id \in DOMAIN m \cup DOMAIN c |-> IF id \in DOMAIN m THEN m[id] ELSE c[id]]

LinkMerge(cpart, coff) ==
    /\ pending > 0
    /\ participations' = MergeParticipations(participations, cpart)
    /\ officiels' = MergeOfficiels(officiels, coff)
    /\ pending' = pending - 1
    /\ UNCHANGED <<departemental, par_equipe, opc, pts, details, basis, ret>>
    /\ UNCHANGED <<scnVars, batchVars, judgeVars, reduceVars, resultVars, mainVars>>

\* The officials of the session grouped by club
Grouped ==
    [club \in {officiels[i].club : i \in DOMAIN officiels} |->
        [i \in {j \in DOMAIN officiels : officiels[j].club = club} |->
            officiels[i]]]

\* Variant: the grouping rebuilt at every call instead of kept
officiels_per_club_uncached == << Grouped >>

\* Reunion.officiels_per_club (lines 710-723): computed once, then cached
officiels_per_club == IF opc # <<>> THEN opc ELSE << Grouped >>

\* The memo test of line 734
Cached(club, want) ==
    club \in DOMAIN pts /\ (club \in DOMAIN details \/ ~want)

\* What the caches hold for the club when a call comes in
Had(club) ==
    IF club \notin DOMAIN pts THEN "none"
    ELSE IF club \in DOMAIN details THEN "both" ELSE "score"

\* What a computing call reads: the club's participations, and how many
\* linked competitions were still to merge
Read(club) == [part |-> Get(participations, club, 0), left |-> pending]

Entry(club, want) ==
    [club |-> club, want |-> want, had |-> Had(club),
     old |-> Get(pts, club, 0), oldtrail |-> Get(details, club, <<>>),
     part |-> Read(club).part, left |-> Read(club).left,
     oldpart |-> Get(basis, club, Read(club)).part,
     oldleft |-> Get(basis, club, Read(club)).left]

CallRecord(e, score, trail) ==
    [club |-> e.club, want |-> e.want, score |-> score, trail |-> trail,
     had |-> e.had, old |-> e.old, oldtrail |-> e.oldtrail,
     part |-> e.part, left |-> e.left,
     oldpart |-> e.oldpart, oldleft |-> e.oldleft]

\* Variant: the memo serves only calls that ask for a rationale, and the
\* caller's list is stored whether or not one was passed
PointsCallNoGuard(club, want) ==
    /\ club \in DOMAIN participations
    /\ IF club \in DOMAIN pts /\ club \in DOMAIN details /\ want
       THEN /\ ret' = CallRecord(Entry(club, want), pts[club], details[club])
            /\ UNCHANGED <<opc, pts, details, basis>>
       ELSE LET grouped == officiels_per_club
                r == PointsCompute(departemental, par_equipe,
                                   Get(participations, club, 0),
                                   Get(grouped[1], club, <<>>), want)
            IN  /\ opc' = grouped
                /\ details' = Put(details, club, r.trail)
                /\ pts' = Put(pts, club, r.pts)
                /\ basis' = Put(basis, club, Read(club))
                /\ ret' = CallRecord(Entry(club, want), r.pts, r.trail)
    /\ UNCHANGED <<departemental, par_equipe, participations, officiels, pending>>
    /\ UNCHANGED <<scnVars, batchVars, judgeVars, reduceVars, resultVars, mainVars>>

\* Reunion.points(club, details) (lines 725-810); want = the caller passed a
\* fresh empty list, as the report loop (line 955) and new_reunion do
PointsCall(club, want) ==
    /\ club \in DOMAIN participations
    /\ IF Cached(club, want)
       THEN /\ ret' = CallRecord(Entry(club, want), pts[club],
                                 IF want THEN details[club] ELSE <<>>)
            /\ UNCHANGED <<opc, pts, details, basis>>
       ELSE LET grouped == officiels_per_club
                r == PointsCompute(departemental, par_equipe,
                                   Get(participations, club, 0),
                                   Get(grouped[1], club, <<>>), want)
            IN  /\ opc' = grouped
                /\ details' = IF want THEN Put(details, club, r.trail) ELSE details
                /\ pts' = Put(pts, club, r.pts)
                /\ basis' = Put(basis, club, Read(club))
                /\ ret' = CallRecord(Entry(club, want), r.pts, r.trail)
    /\ UNCHANGED <<departemental, par_equipe, participations, officiels, pending>>
    /\ UNCHANGED <<scnVars, batchVars, judgeVars, reduceVars, resultVars, mainVars>>

\* The report loop starts after the loop over link_list has ended (lines
\* 912-955): no points() call precedes a merge
ScoringExposed == pending = 0

\* points() as the main script and the PDF report reach it
Points(club, want) ==
    /\ ScoringExposed
    /\ PointsCall(club, want)

Next ==
    \/ \E coff \in OfficielDicts :
          \E cpart \in ParticipationDicts(coff) :
             LinkMerge(cpart, [i \in DOMAIN coff |-> SessionCopy(i, coff[i])])
    \/ \E club \in Clubs, want \in BOOLEAN : Points(club, want)

Spec == Init /\ [][Next]_vars

\* The session as an object: nothing in Reunion orders the merge of a linked
\* session before points()
NextOnDemand ==
    \/ \E coff \in OfficielDicts :
          \E cpart \in ParticipationDicts(coff) :
             LinkMerge(cpart, [i \in DOMAIN coff |-> SessionCopy(i, coff[i])])
    \/ \E club \in Clubs, want \in BOOLEAN : PointsCall(club, want)

SpecOnDemand == Init /\ [][NextOnDemand]_vars

----------------------------------------------------------------------------
(* Claims on the caches of points() *)

C2_PointsIdempotent ==
    /\ ret.club # "none" => pts[ret.club] = ret.score
    /\ ret.had # "none" => ret.score = ret.old
    /\ ret.want => (ret.club \in DOMAIN details /\ details[ret.club] = ret.trail)
    /\ (ret.want /\ ret.had = "both") => ret.trail = ret.oldtrail

C2_Witness ==
    /\ ret.want /\ ret.had = "both"
    /\ ret.score = ret.old /\ ret.score # 0
    /\ ret.trail = ret.oldtrail /\ Len(ret.trail) >= 2

\* C3: a call without rationale leaves the rationale stored for the club as
\* it was.
C3_NoRationaleCallKeepsRationale ==
    (ret.club # "none" /\ ~ret.want /\ ret.had = "both") =>
        /\ ret.club \in DOMAIN details
        /\ details[ret.club] = ret.oldtrail

C3_Witness ==
    /\ ret.club # "none" /\ ~ret.want /\ ret.had = "both"
    /\ Len(details[ret.club]) >= 2

----------------------------------------------------------------------------
(* Claims on the scoring rule, checked under SpecPoints *)

Scored == scn_phase = "scored"

\* ceil(p / 8) and floor(t / 2), by their defining inequalities
Ceil8(p) == CHOOSE t \in 0..p : 8 * t >= p /\ (t = 0 \/ 8 * (t - 1) < p)
Half(t) == CHOOSE h \in 0..t : 2 * h <= t /\ t < 2 * (h + 1)

\* C4 as stated: at department level, with P = participations x team size,
\* needed = (0,0) when P = 0 and otherwise total = ceil(P/8) and
\* minQualified = floor(total/2), for every team size.
C4_DepartmentEveryTeamSize ==
    (Scored /\ scn.dep) =>
        LET P == scn.part * scn.pe
        IN  scn_res.needed =
                IF P = 0 THEN <<0, 0>> ELSE <<Half(Ceil8(P)), Ceil8(P)>>

\* C4 amended: the ceil(P/8) rule holds for every team size other than 10;
\* for teams of 10 the needed total is the number of teams, and the minimum
\* qualified is floor(total/2) in both cases.
C4_DepartmentNeeded ==
    (Scored /\ scn.dep) =>
        LET P == scn.part * scn.pe
            total == IF scn.pe = 10 THEN scn.part ELSE Ceil8(P)
        IN  scn_res.needed = IF P = 0 THEN <<0, 0>> ELSE <<Half(total), total>>

C4_Witness ==
    /\ Scored /\ scn.dep /\ scn.pe = 4 /\ scn.part = 5
    /\ scn_res.needed = <<1, 3>>

\* C5: at regional level or above, team format gives (0, participations) up
\* to one participation and (1, min(3, participations)) beyond; individual
\* format gives (0,0) up to 1, (0,1) from 2 to 10 and (1,2) above 10.
C5_RegionalNeeded ==
    (Scored /\ ~scn.dep) =>
        LET p == scn.part
        IN  IF scn.pe # 1
            THEN (p <= 1 => scn_res.needed = <<0, p>>)
                 /\ (p > 1 => scn_res.needed = <<1, IF p < 3 THEN p ELSE 3>>)
            ELSE /\ (p <= 1 => scn_res.needed = <<0, 0>>)
                 /\ (2 <= p /\ p <= 10 => scn_res.needed = <<0, 1>>)
                 /\ (p > 10 => scn_res.needed = <<1, 2>>)

C5_Witness ==
    /\ Scored /\ ~scn.dep /\ scn.pe = 1 /\ scn.part = 10
    /\ scn_res.needed = <<0, 1>>

\* C6: with n counted officials, q qualified ones and needed = (minQ, total):
\* n < total gives -4 x (total - n) and no qualified malus; otherwise the
\* score is 2 x (n - total) - 2 x max(0, minQ - q).
C6_PointDelta ==
    Scored =>
        LET n == scn_res.num
            q == scn_res.num_ab
            minQ == scn_res.needed[1]
            total == scn_res.needed[2]
        IN  IF n < total
            THEN scn_res.pts = (-4) * (total - n)
            ELSE scn_res.pts =
                   2 * (n - total) - 2 * (IF minQ > q THEN minQ - q ELSE 0)

\* a deficit together with a qualified shortfall: the deficit dominates
C6_Witness ==
    /\ Scored
    /\ scn_res.num < scn_res.needed[2]
    /\ scn_res.num_ab < scn_res.needed[1]
    /\ scn_res.pts = (-4) * (scn_res.needed[2] - scn_res.num)

\* the official that AddOfficiel appended
Added == scn.offs[Len(scn.offs)]

\* C7 as stated: at regional level or above, for a club that already has at
\* least 5 valid officials, one more valid official of any grade leaves the
\* score unchanged.
C7_ExcessNeverChangesScore ==
    (scn_phase = "added" /\ ~scn.dep /\ scn_base.num = 5) =>
        scn_res.pts = scn_base.pts

\* C7, what the code does: the counted officials are capped at 5, and one
\* more valid official leaves the score unchanged unless a qualified official
\* is required, none of the club's valid officials was qualified and the
\* added one is: the 2-point malus is then lifted, because the qualified
\* count is taken over all valid officials, not over the 5 counted.
C7_ExcessOnlyLiftsMalus ==
    (scn_phase = "added" /\ ~scn.dep /\ scn_base.num = 5) =>
        /\ scn_res.num = 5
        /\ scn_res.pts = scn_base.pts +
              (IF scn_base.num_ab < scn_base.needed[1] /\ NiveauB <= Added.niveau
               THEN 2 ELSE 0)

\* five valid officials below grade B, a sixth of grade B: 4 becomes 6
C7_Witness ==
    /\ scn_phase = "added" /\ ~scn.dep /\ scn_base.num = 5
    /\ scn_res.pts = scn_base.pts + 2

\* C11: an official whose duty does not count at the competition's level
\* (first flag at department level, second flag otherwise) is in neither
\* count: the club scored without that official has the same counted and
\* qualified numbers, the same score and the same rationale.
C11_InvalidOfficialNeverCounted ==
    (scn_phase = "removed" /\ ~scn.gone.valid[IF scn.dep THEN 1 ELSE 2]) =>
        /\ scn_res.num = scn_base.num
        /\ scn_res.num_ab = scn_base.num_ab
        /\ scn_res.pts = scn_base.pts
        /\ scn_res.trail = scn_base.trail

\* an official of a duty that counts at department level only, taken away
\* from a regional session whose club has a non-zero score
C11_Witness ==
    /\ scn_phase = "removed" /\ ~scn.dep
    /\ scn.gone = OffDepOnly
    /\ scn_res.pts = scn_base.pts /\ scn_res.pts # 0

\* C8 as stated (scenario A): individual, regional, 5 participations:
\* needed = (0,0), and 2 counted officials score +4.
C8_ScenarioA_Stated ==
    (Scored /\ ~scn.dep /\ scn.pe = 1 /\ scn.part = 5 /\ scn_res.num = 2) =>
        (scn_res.needed = <<0, 0>> /\ scn_res.pts = 4)

\* C8 amended: individual, regional, 5 participations: needed = (0,1), and
\* 2 counted officials score +2.
C8_ScenarioA ==
    (Scored /\ ~scn.dep /\ scn.pe = 1 /\ scn.part = 5 /\ scn_res.num = 2) =>
        (scn_res.needed = <<0, 1>> /\ scn_res.pts = 2)

C8_Witness ==
    Scored /\ ~scn.dep /\ scn.pe = 1 /\ scn.part = 5 /\ scn_res.num = 2

\* C9 as stated (scenario B): individual, regional, 15 participations:
\* needed = (0,1), and no official present scores -4.
C9_ScenarioB_Stated ==
    (Scored /\ ~scn.dep /\ scn.pe = 1 /\ scn.part = 15 /\ scn.offs = <<>>) =>
        (scn_res.needed = <<0, 1>> /\ scn_res.pts = -4)

\* C9 amended: individual, regional, 15 participations: needed = (1,2), and
\* no official present scores -8.
C9_ScenarioB ==
    (Scored /\ ~scn.dep /\ scn.pe = 1 /\ scn.part = 15 /\ scn.offs = <<>>) =>
        (scn_res.needed = <<1, 2>> /\ scn_res.pts = -8)

C9_Witness ==
    Scored /\ ~scn.dep /\ scn.pe = 1 /\ scn.part = 15 /\ scn.offs = <<>>

\* exactly one valid official, of grade B, among the club's officials
OneValidB ==
    /\ scn_res.num = 1
    /\ scn_res.num_ab = 1
    /\ \A i \in DOMAIN scn.offs :
          is_valid(scn.offs[i], scn.dep) => scn.offs[i].niveau = NiveauB

\* C10 as stated (scenario C): team format, regional, 2 teams: needed =
\* (1,1), and exactly one valid B-grade official scores 0.
C10_ScenarioC_Stated ==
    (Scored /\ ~scn.dep /\ scn.pe # 1 /\ scn.part = 2 /\ OneValidB) =>
        (scn_res.needed = <<1, 1>> /\ scn_res.pts = 0)

\* C10 amended: team format, regional, 2 teams: needed = (1,2), and exactly
\* one valid B-grade official scores -4.
C10_ScenarioC ==
    (Scored /\ ~scn.dep /\ scn.pe # 1 /\ scn.part = 2 /\ OneValidB) =>
        (scn_res.needed = <<1, 2>> /\ scn_res.pts = -4)

C10_Witness ==
    Scored /\ ~scn.dep /\ scn.pe = 4 /\ scn.part = 2 /\ OneValidB

----------------------------------------------------------------------------
(* SpecBatch: the main script from the link step to the report *)

\* The files of a run, in the order of the sorted file list
CompetitionIds == {1, 2, 3}
CompetitionOrder == <<1, 2, 3>>

\* The results of a club's swimmers in the first session of a file: swimmer
\* ids, one per result
Rosters == {<<1>>, <<1, 1, 2>>}

\* The level and format of the competitions of the run
BatchDepartemental == FALSE
BatchParEquipe == 1

\* What one file holds: its LINK rel (0 = none), its number of sessions with
\* races, its clubs and the roster of each
FileSet ==
    [link : {0, 1}, n : 1..MaxSessions,
     clubs : {{"A"}, {"B"}, {"A", "B"}}, roster : Rosters]

\* Competition 1 carries no LINK and is the one the others may designate
Feeds ==
    {f \in [CompetitionIds -> FileSet] :
        /\ f[1].link = 0 /\ "A" \in f[1].clubs
        /\ \A c \in CompetitionIds \ {1} : Cardinality(f[c].clubs) = 1}

\* The official each file registers for a club: id by club, record by file
ClubOfficielId(k) == IF k = "A" THEN 1 ELSE 2
FileOfficiel(c) == IF c = 1 THEN OffC ELSE IF c = 2 THEN OffB ELSE OffInv

\* reunion.participants[club] once the results are read (lines 563-634):
\* session i sees the roster and i - 1 more swimmers
Participants(f, i, k) ==
    LET base == IF k = "A" THEN f.roster
                ELSE [j \in DOMAIN f.roster |-> f.roster[j] + 10]
    IN  base \o [j \in 1..(i - 1) |-> 100 + j]

\* Variant: the results counted, not the swimmers
RawCount(l) == Len(l)

\* len(set(l)), line 639
Reduction(l) == Cardinality({l[j] : j \in DOMAIN l})

\* A session as Competition.__init__ leaves it (individual format)
ParsedReunion(c, f, i) ==
    [participants |-> [k \in f.clubs |-> Participants(f, i, k)],
     participations |-> [k \in f.clubs |-> Reduction(Participants(f, i, k))],
     engagements |-> [k \in f.clubs |-> Len(Participants(f, i, k))],
     officiels |-> [id \in {ClubOfficielId(k) : k \in f.clubs} |->
                       SessionCopy(id, FileOfficiel(c))],
     pts |-> <<>>,
     details |-> <<>>]

\* competitions after line 909, link_list of line 912
Selected(sel) == IF sel = 0 THEN CompetitionOrder ELSE <<sel>>

LinkList(sel, f) == SelectSeq(Selected(sel), LAMBDA c : f[c].link # 0)

\* The model once every file is parsed and link_list is built (lines 891-912)
InitBatch ==
    /\ \E sel \in {0} \cup CompetitionIds, f \in Feeds :
          /\ feed = [sel |-> sel, comp |-> f]
          /\ reunions = [c \in CompetitionIds |->
                            [i \in 1..f[c].n |-> ParsedReunion(c, f[c], i)]]
          /\ club_competitions =
                [k \in Clubs |->
                    SelectSeq(CompetitionOrder, LAMBDA c : k \in f[c].clubs)]
          /\ run = [aborted |-> FALSE,
                    link |-> LinkList(sel, f),
                    report |-> Selected(sel),
                    clubs |-> IF sel = 0 THEN <<"A", "B">> ELSE <<>>,
                    pages |-> Selected(sel)]
    /\ linked = [c \in CompetitionIds |-> <<>>]
    /\ raw_df = {}
    /\ points_total = [participations |-> 0, engagements |-> 0, clubs |-> <<>>]
    /\ club_pages = <<>>
    /\ comp_pages = <<>>
    /\ IdleScenario
    /\ IdleSession
    /\ IdleJudges
    /\ IdleReduce
    /\ IdleResults
    /\ IdleMain

Range(q) == {q[j] : j \in DOMAIN q}

RECURSIVE SumFn(_)
SumFn(f) ==
    IF DOMAIN f = {} THEN 0
    ELSE LET x == CHOOSE x \in DOMAIN f : TRUE
         IN  f[x] + SumFn([y \in DOMAIN f \ {x} |-> f[y]])

\* Variant: a satellite with fewer sessions than its master is let through
SameReunionsOrFewer(c, m) == Len(reunions[c]) <= Len(reunions[m])

\* The test of line 919
SameReunions(c, m) == Len(reunions[c]) = Len(reunions[m])

\* Lines 924-940 for session i: creunion folded into mreunion
MergeReunion(mr, cr) ==
    [mr EXCEPT !.participations = MergeParticipations(mr.participations, cr.participations),
               !.engagements = MergeParticipations(mr.engagements, cr.engagements),
               !.officiels = MergeOfficiels(mr.officiels, cr.officiels)]

\* The clubs whose list of competitions receives the master (lines 927-935)
MergedClubs(c, m) ==
    UNION {DOMAIN reunions[c][i].participations \cup
           DOMAIN reunions[m][i].participations \cup
           DOMAIN reunions[c][i].engagements \cup
           DOMAIN reunions[m][i].engagements : i \in DOMAIN reunions[c]}

\* One iteration of the loop over link_list (lines 913-940)
LinkStep ==
    /\ ~run.aborted
    /\ run.link # <<>>
    /\ LET c == Head(run.link)
           m == feed.comp[c].link
       IN  /\ linked' = [linked EXCEPT ![m] = Append(@, c)]
           /\ IF ~SameReunions(c, m)
              THEN /\ run' = [run EXCEPT !.aborted = TRUE]
                   /\ UNCHANGED <<reunions, club_competitions>>
              ELSE /\ reunions' =
                        [reunions EXCEPT ![m] =
                            [i \in DOMAIN @ |->
                                IF i \in DOMAIN reunions[c]
                                THEN MergeReunion(@[i], reunions[c][i])
                                ELSE @[i]]]
                   /\ club_competitions' =
                        [k \in Clubs |->
                            IF k \in MergedClubs(c, m)
                               /\ m \notin Range(club_competitions[k])
                            THEN Append(club_competitions[k], m)
                            ELSE club_competitions[k]]
                   /\ run' = [run EXCEPT !.link = Tail(@)]
    /\ UNCHANGED <<feed, raw_df, points_total, club_pages, comp_pages>>
    /\ UNCHANGED <<scnVars, sessionVars, judgeVars, reduceVars, resultVars, mainVars>>

\* The club's officials in a session (officiels_per_club().get(club, []))
ClubOfficiels(r, k) ==
    [id \in {j \in DOMAIN r.officiels : r.officiels[j].club = k} |-> r.officiels[id]]

\* What points(club, details) computes on a session of the run
Computed(r, k) ==
    PointsCompute(BatchDepartemental, BatchParEquipe,
                  Get(r.participations, k, 0), ClubOfficiels(r, k), TRUE)

\* reunion.points(club, []) and reunion.points(club): the score, and the
\* session with its caches
ScoreOf(r, k) == IF k \in DOMAIN r.pts THEN r.pts[k] ELSE Computed(r, k).pts

AfterPoints(r, ks, want) ==
    [r EXCEPT !.pts = [k \in DOMAIN r.pts \cup ks |-> ScoreOf(r, k)],
              !.details =
                 IF want
                 THEN [k \in DOMAIN r.details \cup ks |->
                          IF k \in DOMAIN r.details THEN r.details[k]
                          ELSE Computed(r, k).trail]
                 ELSE r.details]

\* The row of lines 955-998 for one session and one club
Row(c, i, k) ==
    LET r == reunions[c][i]
        isLinked == feed.comp[c].link # 0
    IN  [competition |-> c, reunion |-> i, club |-> k,
         points |-> IF isLinked THEN 0 ELSE ScoreOf(r, k),
         participations |-> IF isLinked THEN 0 ELSE Get(r.participations, k, 0),
         engagements |-> IF isLinked THEN 0 ELSE Get(r.engagements, k, 0),
         officiels |-> IF isLinked THEN 0
                       ELSE CountNum(ClubOfficiels(r, k), BatchDepartemental)]

RowsOf(c) ==
    {Row(c, i, k) : <<i, k>> \in
        {x \in (DOMAIN reunions[c]) \X Clubs :
            x[2] \in DOMAIN reunions[c][x[1]].participations}}

SumRows(rows, field) ==
    SumFn([x \in rows |-> x[field]])

\* One iteration of the report loop over competitions (lines 951-1003)
ReportStep ==
    /\ ~run.aborted
    /\ run.link = <<>> /\ run.report # <<>>
    /\ LET c == Head(run.report)
           rows == RowsOf(c)
       IN  /\ reunions' =
                [reunions EXCEPT ![c] =
                    [i \in DOMAIN @ |->
                        AfterPoints(@[i], DOMAIN @[i].participations, TRUE)]]
           /\ raw_df' = raw_df \cup rows
           /\ points_total' =
                [participations |-> points_total.participations
                                      + SumRows(rows, "participations"),
                 engagements |-> points_total.engagements
                                   + SumRows(rows, "engagements"),
                 clubs |-> [k \in DOMAIN points_total.clubs \cup {x.club : x \in rows} |->
                              Get(points_total.clubs, k, 0)
                              + SumRows({x \in rows : x.club = k}, "points")]]
           /\ run' = [run EXCEPT !.report = Tail(@)]
    /\ UNCHANGED <<feed, club_competitions, linked, club_pages, comp_pages>>
    /\ UNCHANGED <<scnVars, sessionVars, judgeVars, reduceVars, resultVars, mainVars>>

\* DocTemplate.new_club (gen_pdf.py lines 154-201) for the next club: every
\* session of every competition of the club's list adds its points
ClubStep ==
    /\ ~run.aborted
    /\ run.link = <<>> /\ run.report = <<>> /\ run.clubs # <<>>
    /\ LET k == Head(run.clubs)
           mine == Range(club_competitions[k])
           each == [x \in {y \in mine \X (1..MaxSessions) : y[2] \in DOMAIN reunions[y[1]]} |->
                       ScoreOf(reunions[x[1]][x[2]], k)]
       IN  /\ club_pages' = Put(club_pages, k, SumFn(each))
           /\ reunions' =
                [c \in CompetitionIds |->
                    IF c \in mine
                    THEN [i \in DOMAIN reunions[c] |->
                             AfterPoints(reunions[c][i], {k}, FALSE)]
                    ELSE reunions[c]]
           /\ run' = [run EXCEPT !.clubs = Tail(@)]
    /\ UNCHANGED <<feed, club_competitions, linked, raw_df, points_total, comp_pages>>
    /\ UNCHANGED <<scnVars, sessionVars, judgeVars, reduceVars, resultVars, mainVars>>

\* new_competition / new_reunion for one session (gen_pdf.py lines 241-276)
ReunionPage(r) ==
    [participations |-> SumFn(r.participations),
     engagements |-> SumFn([k \in DOMAIN r.participations |-> Get(r.engagements, k, 0)]),
     points |-> [k \in DOMAIN r.participations |-> ScoreOf(r, k)]]

\* One iteration of the loop of lines 1079-1081
PageStep ==
    /\ ~run.aborted
    /\ run.link = <<>> /\ run.report = <<>> /\ run.clubs = <<>> /\ run.pages # <<>>
    /\ LET c == Head(run.pages)
       IN  /\ IF feed.comp[c].link = 0
              THEN /\ comp_pages' =
                        Put(comp_pages, c,
                            [i \in DOMAIN reunions[c] |-> ReunionPage(reunions[c][i])])
                   /\ reunions' =
                        [reunions EXCEPT ![c] =
                            [i \in DOMAIN @ |->
                                AfterPoints(@[i], DOMAIN @[i].participations, TRUE)]]
              ELSE UNCHANGED <<comp_pages, reunions>>
           /\ run' = [run EXCEPT !.pages = Tail(@)]
    /\ UNCHANGED <<feed, club_competitions, linked, raw_df, points_total, club_pages>>
    /\ UNCHANGED <<scnVars, sessionVars, judgeVars, reduceVars, resultVars, mainVars>>

NextBatch ==
    \/ LinkStep
    \/ ReportStep
    \/ ClubStep
    \/ PageStep

SpecBatch == InitBatch /\ [][NextBatch]_vars


----------------------------------------------------------------------------
(* SpecJudges: the JUDGE entries of the sessions of one file *)

\* The sheet "Niveaux" (lines 199-209); Niveau compares by valeur
Niveaux ==
    [Lic |-> [nom |-> "Licencie", valeur |-> 0],
     Eleve |-> [nom |-> "Eleve Chrono", valeur |-> 0],
     C |-> [nom |-> "C", valeur |-> NiveauC],
     B |-> [nom |-> "B", valeur |-> NiveauB],
     A |-> [nom |-> "A", valeur |-> NiveauA]]

niveau_c == Niveaux.C
niveau_c_next == Niveaux.Eleve

\* The sheet "Postes" (lines 211-223), keyed by its index
Postes ==
    <<[index |-> 1, niveau |-> Niveaux.C, depart |-> "Officiel", regional |-> "Officiel"],
      [index |-> 2, niveau |-> Niveaux.B, depart |-> "Officiel", regional |-> ""],
      [index |-> 3, niveau |-> Niveaux.Lic, depart |-> "Licencie", regional |-> ""],
      [index |-> 4, niveau |-> Niveaux.A, depart |-> "Officiel", regional |-> "Officiel"]>>

JudgeSessions == {1, 2}

\* Officiel.__init__ (lines 121-130): no duty (0), no validity (<<>>)
Officiel(index, niveau) ==
    [index |-> index, niveau |-> niveau, poste |-> 0,
     real_officiel |-> niveau_c.valeur <= niveau.valeur, valid |-> <<>>]

\* The OFFICIAL elements of the file: a grade-B official and a licensee
ParsedOfficiels == <<Officiel(1, Niveaux.B), Officiel(2, Niveaux.Lic)>>

\* The JUDGE elements of the file, session after session
JudgeEntries == [session : JudgeSessions, id : DOMAIN ParsedOfficiels, role : DOMAIN Postes]

RECURSIVE JudgeLists(_)
JudgeLists(n) ==
    IF n = 0 THEN {<<>>}
    ELSE JudgeLists(n - 1) \cup
         {Append(q, e) : q \in {x \in JudgeLists(n - 1) : Len(x) = n - 1}, e \in JudgeEntries}

BySession(q) == \A j \in 1..(Len(q) - 1) : q[j].session <= q[j + 1].session

\* The sheet of the trainees (conf.eleves): who is registered, and the Chrono
\* date, counted in session starts: the date falls on the start of session t
\* (0: before the first)
ElevesSheets ==
    UNION {[reg -> {t}] : reg \in {{1}, {2}, {1, 2}}, t \in {0} \cup JudgeSessions}

\* Competition.__init__ at the sessions loop (line 501): the catalog is built,
\* no JUDGE was read
JudgesStart(q, el) ==
    /\ judges_in = q
    /\ judges = q
    /\ eleves = el
    /\ heap = ParsedOfficiels
    /\ catalog = [id \in DOMAIN ParsedOfficiels |-> id]
    /\ jury = [s \in JudgeSessions |-> <<>>]
    /\ club_officiels = <<>>
    /\ judge_log = <<>>
    /\ crashed = FALSE
    /\ IdleScenario
    /\ IdleSession
    /\ IdleBatch
    /\ IdleReduce
    /\ IdleResults
    /\ IdleMain

\* A file whose JUDGE entries all name an official and a duty that exist
InitJudges ==
    \E q \in {x \in JudgeLists(MaxJudges) : BySession(x)}, el \in ElevesSheets :
        JudgesStart(q, el)

\* The JUDGE entries of a file that may name an official id absent from its
\* OFFICIALS (3) or a role id absent from the sheet "Postes" (5)
LooseEntries ==
    [session : JudgeSessions, id : DOMAIN ParsedOfficiels \cup {3},
     role : DOMAIN Postes \cup {5}]

RECURSIVE LooseLists(_)
LooseLists(n) ==
    IF n = 0 THEN {<<>>}
    ELSE LooseLists(n - 1) \cup
         {Append(q, e) : q \in {x \in LooseLists(n - 1) : Len(x) = n - 1}, e \in LooseEntries}

InitLooseJudges ==
    \E q \in {x \in LooseLists(MaxLooseJudges) : BySession(x)}, el \in ElevesSheets :
        JudgesStart(q, el)

Score(p) ==
    LET scores(x) == IF x = "Licencie" THEN 2 ELSE IF x = "Officiel" THEN 1 ELSE 0
    IN  p.niveau.valeur + scores(p.depart) + scores(p.regional)

\* Variant: on equal scores the duty already held is kept
preferred_to_held(self, other) == Score(self) >= Score(other)

\* Poste.preferred_to (lines 101-114)
preferred_to(self, other) ==
    IF Score(self) # Score(other) THEN Score(self) > Score(other)
    ELSE self.index < other.index

\* Poste.valid_for (lines 92-99)
valid_for(p, o) ==
    <<p.depart = "Licencie" \/ (p.depart = "Officiel" /\ o.real_officiel),
      p.regional = "Licencie" \/ (p.regional = "Officiel" /\ o.real_officiel)>>

\* Whether Officiel.set_poste returns early (lines 137-140)
Keeps(o, role) == o.poste # 0 /\ preferred_to(Postes[o.poste], Postes[role])

\* Officiel.set_poste on the object (lines 131-148)
set_poste(o, role) ==
    IF Keeps(o, role) THEN o
    ELSE [o EXCEPT !.poste = role, !.valid = valid_for(Postes[role], o)]

\* Variant: no copy is made, the object of the catalog is used
Aliased(ref) == ref

\* copy.copy(officiel) (line 534): the reference of the new object
Copied(ref) == Len(heap) + 1

\* Variant: a Chrono date on the start of the session is enough
IsEleveNotLater(o, s) ==
    /\ o.niveau.valeur < niveau_c.valeur
    /\ o.index \in DOMAIN eleves
    /\ eleves[o.index] <= s

\* The trainee test of lines 536-538: eleve["Chrono"] < reunion_start
IsEleve(o, s) ==
    /\ o.niveau.valeur < niveau_c.valeur
    /\ o.index \in DOMAIN eleves
    /\ eleves[o.index] < s

\* Variant: the entry of a session is written once and kept
add_officiel_once(co, id, s, role) ==
    IF s \in DOMAIN Get(co, id, <<>>) THEN co
    ELSE Put(co, id, Put(Get(co, id, <<>>), s, role))

\* Club.add_officiel (lines 46-54): one entry per official and session
add_officiel(co, id, s, role) == Put(co, id, Put(Get(co, id, <<>>), s, role))

\* One JUDGE element (lines 523-546). With a role id that conf.postes does
\* not hold, poste is None: an error is logged, and for an official that
\* exists set_poste raises AttributeError on poste.niveau (line 146) or, when
\* a duty is held, in preferred_to (line 109)
Judge ==
    /\ judges # <<>>
    /\ ~crashed
    /\ LET e == Head(judges)
           known == e.role \in DOMAIN Postes
           lines == (IF known THEN <<>> ELSE << <<"poste", e.id, e.role>> >>) \o
                    (IF e.id \in DOMAIN catalog THEN <<>>
                     ELSE << <<"officiel", e.id, e.role>> >>)
       IN  IF e.id \notin DOMAIN catalog
           THEN /\ judges' = Tail(judges)
                /\ judge_log' = judge_log \o lines
                /\ UNCHANGED <<heap, jury, club_officiels, crashed>>
           ELSE LET base == catalog[e.id]
                    h1 == Append(heap, heap[base])
                    r == Copied(base)
                    h2 == IF IsEleve(h1[r], e.session)
                          THEN [h1 EXCEPT ![r].niveau = niveau_c_next,
                                          ![r].real_officiel = TRUE]
                          ELSE h1
                    target == IF e.id \in DOMAIN jury[e.session]
                              THEN jury[e.session][e.id] ELSE r
                IN  IF ~known
                    THEN /\ crashed' = TRUE
                         /\ heap' = h2
                         /\ judge_log' = judge_log \o lines
                         /\ UNCHANGED <<judges, jury, club_officiels>>
                    ELSE /\ heap' = [h2 EXCEPT ![target] = set_poste(h2[target], e.role)]
                         /\ jury' = [jury EXCEPT ![e.session] = Put(@, e.id, target)]
                         /\ club_officiels' =
                              IF Keeps(h2[target], e.role) THEN club_officiels
                              ELSE add_officiel(club_officiels, e.id, e.session, e.role)
                         /\ judge_log' =
                              IF ~Keeps(h2[target], e.role)
                                 /\ h2[target].niveau.valeur < Postes[e.role].niveau.valeur
                              THEN Append(judge_log, <<"niveau", e.id, e.role>>)
                              ELSE judge_log
                         /\ judges' = Tail(judges)
                         /\ UNCHANGED crashed
    /\ UNCHANGED <<eleves, judges_in, catalog>>
    /\ UNCHANGED <<scnVars, sessionVars, batchVars, reduceVars, resultVars, mainVars>>

NextJudges == Judge

SpecJudges == InitJudges /\ [][NextJudges]_vars

SpecLooseJudges == InitLooseJudges /\ [][NextJudges]_vars

----------------------------------------------------------------------------
(* SpecReduce: the results of one file and the final reduction *)

\* The RESULT elements, heats only, one SOLO each in the individual format:
\* the session of the race, the club, and the swimmer id or the team unit
ResultEntries == [session : JudgeSessions, club : Clubs, who : {1, 2}]

RECURSIVE ResultLists(_)
ResultLists(n) ==
    IF n = 0 THEN {<<>>}
    ELSE ResultLists(n - 1) \cup
         {Append(q, e) : q \in {x \in ResultLists(n - 1) : Len(x) = n - 1}, e \in ResultEntries}

\* The tallies of a club as the sessions loop creates them (lines 512-515)
NoTally == [participants |-> <<>>, participations |-> 0, engagements |-> 0,
            individuel |-> 0, relais |-> 0, equipe |-> 0]

\* Competition.__init__ at the results loop (line 563)
InitReduce ==
    /\ \E q \in ResultLists(MaxResults), pe \in TeamSizes :
          /\ results = q
          /\ team_size = pe
    /\ tally = [s \in JudgeSessions |-> [k \in Clubs |-> NoTally]]
    /\ reduce_log = <<>>
    /\ IdleScenario
    /\ IdleSession
    /\ IdleBatch
    /\ IdleJudges
    /\ IdleResults
    /\ IdleMain

\* One RESULT element (lines 564-582)
ReadResult ==
    /\ results # <<>>
    /\ reduce_log = <<>>
    /\ LET e == Head(results)
           t == tally[e.session][e.club]
       IN  tally' = [tally EXCEPT ![e.session][e.club] =
                        IF team_size # 1
                        THEN [t EXCEPT !.participants = Append(@, e.who)]
                        ELSE [t EXCEPT !.participants = Append(@, e.who),
                                       !.engagements = @ + 1,
                                       !.individuel = @ + 1]]
    /\ results' = Tail(results)
    /\ UNCHANGED <<team_size, reduce_log>>
    /\ UNCHANGED <<scnVars, sessionVars, batchVars, judgeVars, resultVars, mainVars>>

\* Lines 639-644 for one club of one session
Reduced(t, first) ==
    LET n == Reduction(t.participants)
    IN  IF team_size # 1
        THEN [t EXCEPT !.participations = n,
                       !.engagements = n * team_size,
                       !.equipe = IF first THEN @ + n ELSE @]
        ELSE [t EXCEPT !.participations = n]

\* The reduction of lines 637-644, over every session and club; a run after
\* the first is the re-run
Reduce ==
    /\ results = <<>>
    /\ Len(reduce_log) < MaxRuns
    /\ tally' = [s \in DOMAIN tally |->
                    [k \in DOMAIN tally[s] |-> Reduced(tally[s][k], s = 1)]]
    /\ reduce_log' = Append(reduce_log, tally')
    /\ UNCHANGED <<results, team_size>>
    /\ UNCHANGED <<scnVars, sessionVars, batchVars, judgeVars, resultVars, mainVars>>

NextReduce ==
    \/ ReadResult
    \/ Reduce

SpecReduce == InitReduce /\ [][NextReduce]_vars

----------------------------------------------------------------------------
(* SpecResults: the RESULT elements of a one-session file, club by club *)

\* The club ids a RESULT may carry: A and B are in conf.clubs and on the
\* list of the competition (self.clubs), C is in conf.clubs only, X is in
\* neither
ResultClubIds == {"A", "B", "C", "X"}
CatalogClubs == {"A", "B", "C"}

\* The SWIMMERS of the file with their declared club (lines 483-491)
nageurs == <<"A", "A">>

\* The codes of Reunion.forfaits (lines 689-691, 700)
Forfaits == {1, 2, 4}

\* A RESULT: its clubid, its one record (a SOLO of swimmer 1 or a RELAY of
\* swimmers 1 and 2), whether its race is a final, its disqualificationid
FeedResults ==
    [clubid : ResultClubIds, kind : {"SOLO", "RELAY"}, final : BOOLEAN, disq : {0, 1, 3}]

RECURSIVE FeedLists(_)
FeedLists(n) ==
    IF n = 0 THEN {<<>>}
    ELSE FeedLists(n - 1) \cup
         {Append(q, e) : q \in {x \in FeedLists(n - 1) : Len(x) = n - 1}, e \in FeedResults}

\* The tallies of a club of the list when the session is created (lines
\* 512-517)
NoCounts ==
    [participants |-> <<>>, participations |-> 0, engagements |-> 0,
     individuel |-> 0, relais |-> 0, equipe |-> 0,
     forfaits |-> [d \in Forfaits |-> 0]]

\* Competition.__init__ at line 551: the sessions are read, par_equipe is
\* True for a file flagged byteam and 1 otherwise (line 405); True counts as 1
InitResults ==
    /\ \E q \in FeedLists(MaxFeed), byteam \in BOOLEAN :
          /\ ffnex = [byteam |-> byteam, results |-> q]
          /\ todo = q
    /\ equipe = 1
    /\ counts = [k \in Clubs |-> NoCounts]
    /\ results_log = <<>>
    /\ stage = "size"
    /\ IdleScenario
    /\ IdleSession
    /\ IdleBatch
    /\ IdleJudges
    /\ IdleReduce
    /\ IdleMain

\* The swimmers of the roster of a record
Roster(e) == IF e.kind = "SOLO" THEN <<1>> ELSE <<1, 2>>

\* The RESULTs from which the team size can be read (line 555)
SizeGivers(q) == SelectSeq(q, LAMBDA e : e.kind = "RELAY" /\ e.disq = 0)

\* Lines 552-560: the size of the teams, from the first relay that is not
\* disqualified; when none is found par_equipe stays True, which equals 1,
\* and the error of line 560 is logged
Discover ==
    /\ stage = "size"
    /\ LET givers == SizeGivers(ffnex.results)
       IN  /\ equipe' = IF ffnex.byteam /\ givers # <<>>
                        THEN Len(Roster(Head(givers))) ELSE 1
           /\ results_log' = IF ffnex.byteam /\ equipe' = 1
                             THEN Append(results_log, "taille")
                             ELSE results_log
    /\ stage' = "results"
    /\ UNCHANGED <<ffnex, todo, counts>>
    /\ UNCHANGED <<scnVars, sessionVars, batchVars, judgeVars, reduceVars, mainVars>>

\* Variant: the club declared for the first swimmer of the record
HomeClub(e) == nageurs[Head(Roster(e))]

\* The club of a result: conf.clubs.get(int(result.attrib["clubid"]))
\* (lines 569, 581, 624); "X" stands for None
ResultClub(e) == e.clubid

\* reunion.forfaits[disqualification][club] += 1 when the code is tracked
Forfeited(c, e) ==
    IF e.disq \in Forfaits THEN [c EXCEPT !.forfaits[e.disq] = @ + 1] ELSE c

\* The SOLO branch (lines 579-591)
Solo(c, e) ==
    Forfeited([c EXCEPT !.participants = @ \o Roster(e),
                        !.engagements = @ + 1,
                        !.individuel = IF e.final THEN @ ELSE @ + 1], e)

\* The RELAY branch (lines 617-632)
Relay(c, e) ==
    LET c1 == [c EXCEPT !.participants = @ \o Roster(e),
                        !.engagements = @ + Len(Roster(e))]
    IN  IF e.final THEN c1
        ELSE Forfeited([c1 EXCEPT !.relais = @ + 1], e)

\* The branch of the competitions by team (lines 568-576), for one record
Team(c, e) == Forfeited([c EXCEPT !.participants = Append(@, 1)], e)

\* One RESULT element (lines 564-635). By team, a club that conf.clubs holds
\* but the list of the competition does not has no entry in
\* reunion.participants: line 573 raises KeyError
ReadRecord ==
    /\ stage = "results"
    /\ todo # <<>>
    /\ LET e == Head(todo)
           club == ResultClub(e)
       IN  IF equipe # 1
           THEN IF club \in CatalogClubs /\ ~e.final
                THEN IF club \in DOMAIN counts
                     THEN /\ counts' = [counts EXCEPT ![club] = Team(@, e)]
                          /\ todo' = Tail(todo)
                          /\ UNCHANGED stage
                     ELSE /\ stage' = "crashed"
                          /\ UNCHANGED <<counts, todo>>
                ELSE /\ todo' = Tail(todo)
                     /\ UNCHANGED <<counts, stage>>
           ELSE /\ counts' =
                     IF club \in CatalogClubs /\ club \in DOMAIN counts
                     THEN [counts EXCEPT ![club] =
                              IF e.kind = "SOLO" THEN Solo(@, e) ELSE Relay(@, e)]
                     ELSE counts
                /\ todo' = Tail(todo)
                /\ UNCHANGED stage
    /\ UNCHANGED <<ffnex, equipe, results_log>>
    /\ UNCHANGED <<scnVars, sessionVars, batchVars, judgeVars, reduceVars, mainVars>>

\* Lines 637-644 for the session, the first of the file
Count ==
    /\ stage = "results"
    /\ todo = <<>>
    /\ counts' = [k \in DOMAIN counts |->
                     LET n == Reduction(counts[k].participants)
                     IN  IF equipe # 1
                         THEN [counts[k] EXCEPT !.participations = n,
                                                !.engagements = n * equipe,
                                                !.equipe = @ + n]
                         ELSE [counts[k] EXCEPT !.participations = n]]
    /\ stage' = "counted"
    /\ UNCHANGED <<ffnex, todo, equipe, results_log>>
    /\ UNCHANGED <<scnVars, sessionVars, batchVars, judgeVars, reduceVars, mainVars>>

NextResults ==
    \/ Discover
    \/ ReadRecord
    \/ Count

SpecResults == InitResults /\ [][NextResults]_vars

----------------------------------------------------------------------------
(* SpecFiles: the files of the command line, parsed and checked by __main__ *)

\* What a file of the command line can be: a plain FFNEX document, an
\* archive that holds ffnex.xml, an archive that does not, an archive that
\* zipfile cannot read
FileKinds == {"xml", "zip", "sans_ffnex", "illisible"}
MeetIds == {1, 2}

Files == [kind : FileKinds, id : MeetIds]

RECURSIVE FileLists(_)
FileLists(n) ==
    IF n = 0 THEN {<<>>}
    ELSE FileLists(n - 1) \cup
         {Append(q, e) : q \in {x \in FileLists(n - 1) : Len(x) = n - 1}, e \in Files}

\* __main__ at line 891: nothing is parsed yet
InitFiles ==
    /\ ffnex_files \in FileLists(MaxFiles)
    /\ unread = 1
    /\ competitions = <<>>
    /\ main_log = <<>>
    /\ outcome = "parsing"
    /\ IdleScenario
    /\ IdleSession
    /\ IdleBatch
    /\ IdleJudges
    /\ IdleReduce
    /\ IdleResults

\* Competition.__init__ on file number i (lines 367-407): the two early
\* returns of lines 381 and 387 leave an object on which id was never set
ParsedCompetition(i) ==
    IF ffnex_files[i].kind \in {"sans_ffnex", "illisible"}
    THEN [filename |-> i]
    ELSE [filename |-> i, id |-> ffnex_files[i].id]

\* One turn of the loop of lines 891-896
ParseFile ==
    /\ outcome = "parsing"
    /\ unread <= Len(ffnex_files)
    /\ competitions' = Append(competitions, ParsedCompetition(unread))
    /\ main_log' = IF "id" \in DOMAIN ParsedCompetition(unread) THEN main_log
                   ELSE Append(main_log, <<"archive", unread>>)
    /\ unread' = unread + 1
    /\ UNCHANGED <<ffnex_files, outcome>>
    /\ UNCHANGED <<scnVars, sessionVars, batchVars, judgeVars, reduceVars, resultVars>>

RECURSIVE Insert(_, _)
Insert(q, v) ==
    IF q = <<>> THEN <<v>>
    ELSE IF v <= Head(q) THEN <<v>> \o q
    ELSE <<Head(q)>> \o Insert(Tail(q), v)

RECURSIVE Sorted(_)
\* sorted(...) of line 898
Sorted(q) == IF q = <<>> THEN <<>> ELSE Insert(Sorted(Tail(q)), Head(q))

RECURSIVE FirstDuplicate(_)
\* Variant: the scan stops at the first id equal to the one before it
FirstDuplicate(ids) ==
    IF Len(ids) < 2 THEN <<>>
    ELSE IF ids[2] = ids[1] THEN <<ids[2]>>
    ELSE FirstDuplicate(Tail(ids))

RECURSIVE Duplicates(_)
\* The list of lines 900-903: every id equal to the one before it
Duplicates(ids) ==
    IF Len(ids) < 2 THEN <<>>
    ELSE (IF ids[2] = ids[1] THEN <<ids[2]>> ELSE <<>>) \o Duplicates(Tail(ids))

\* Lines 898-905: reading competition.id raises AttributeError on an object
\* left by an early return; duplicated ids are fatal and end the run
CheckIds ==
    /\ outcome = "parsing"
    /\ unread > Len(ffnex_files)
    /\ IF \E i \in DOMAIN competitions : "id" \notin DOMAIN competitions[i]
       THEN /\ outcome' = "crashed"
            /\ UNCHANGED main_log
       ELSE LET competitions_ids ==
                    Sorted([i \in DOMAIN competitions |-> competitions[i].id])
            IN  IF Len(competitions) # Cardinality(Range(competitions_ids))
                THEN /\ main_log' = Append(main_log,
                                           <<"dupliquées", Duplicates(competitions_ids)>>)
                     /\ outcome' = "exit"
                ELSE /\ outcome' = "checked"
                     /\ UNCHANGED main_log
    /\ UNCHANGED <<ffnex_files, unread, competitions>>
    /\ UNCHANGED <<scnVars, sessionVars, batchVars, judgeVars, reduceVars, resultVars>>

\* Lines 907-932, the links between the competitions, as one step
LinkAll ==
    /\ outcome = "checked"
    /\ outcome' = "linked"
    /\ UNCHANGED <<ffnex_files, unread, competitions, main_log>>
    /\ UNCHANGED <<scnVars, sessionVars, batchVars, judgeVars, reduceVars, resultVars>>

\* Lines 934-1084, the scores and the documents, as one step
ReportAll ==
    /\ outcome = "linked"
    /\ outcome' = "reported"
    /\ UNCHANGED <<ffnex_files, unread, competitions, main_log>>
    /\ UNCHANGED <<scnVars, sessionVars, batchVars, judgeVars, reduceVars, resultVars>>

NextFiles ==
    \/ ParseFile
    \/ CheckIds
    \/ LinkAll
    \/ ReportAll

SpecFiles == InitFiles /\ [][NextFiles]_vars

----------------------------------------------------------------------------
(* Claims on the link step and the report (SpecBatch) *)

\* The competitions the link loop has taken up, with their master
Taken == {x \in CompetitionIds \X CompetitionIds : x[1] \in Range(linked[x[2]])}

Merging == run.link # <<>> /\ run'.link = Tail(run.link)

\* C13: when a satellite is folded into its master, for every session and
\* every club of either session the master's participations and engagements
\* become its value before the merge plus the satellite's value, a missing
\* entry counting as 0.
C13_MergeAddsCounts ==
    [][Merging =>
        LET c == Head(run.link)
            m == feed.comp[c].link
        IN  \A i \in DOMAIN reunions[c] :
              LET before == reunions[m][i]
                  sat == reunions[c][i]
                  after == reunions'[m][i]
              IN  /\ \A k \in DOMAIN before.participations \cup DOMAIN sat.participations :
                        /\ k \in DOMAIN after.participations
                        /\ after.participations[k] =
                              Get(before.participations, k, 0) + Get(sat.participations, k, 0)
                  /\ \A k \in DOMAIN before.engagements \cup DOMAIN sat.engagements :
                        /\ k \in DOMAIN after.engagements
                        /\ after.engagements[k] =
                              Get(before.engagements, k, 0) + Get(sat.engagements, k, 0)]_vars

\* A master that had club A only now holds club B of the satellite, and
\* club A's own figures
C13_Witness ==
    /\ linked[1] = <<2>> /\ run.link = <<>> /\ ~run.aborted
    /\ feed.comp[1].clubs = {"A"} /\ feed.comp[2].clubs = {"B"}
    /\ feed.comp[1].roster = <<1, 1, 2>> /\ feed.comp[2].roster = <<1, 1, 2>>
    /\ Len(reunions[1]) >= 2
    /\ reunions[1][2].participations = [k \in {"A", "B"} |-> 3]
    /\ reunions[1][2].engagements = [k \in {"A", "B"} |-> 4]

\* The satellites folded into master m so far, in the order of their merge
MergedInto(m) == SelectSeq(linked[m], LAMBDA c : c \notin Range(run.link))

\* The record first registered for an official id in session i of master m:
\* the master's own if its file has one, else that of the first merged
\* satellite that has one
FirstRegistered(m, i, id) ==
    LET own == ParsedReunion(m, feed.comp[m], i).officiels
        holders == SelectSeq(MergedInto(m),
                             LAMBDA c : id \in DOMAIN reunions[c][i].officiels)
    IN  IF id \in DOMAIN own THEN own[id]
        ELSE reunions[Head(holders)][i].officiels[id]

ReportedFor(k) == {c \in Range(club_competitions[k]) : feed.comp[c].link = 0}

PointsOver(cs, k) ==
    SumFn([x \in {y \in cs \X (1..MaxSessions) : y[2] \in DOMAIN reunions[y[1]]} |->
              ScoreOf(reunions[x[1]][x[2]], k)])

\* C15, the part the code keeps: the rows of a linked competition carry zero
\* points, participations, engagements and officials, so the level totals
\* hold the unlinked competitions only, and no page is made for it.
C15_RowsAndPagesLeaveSatellitesOut ==
    /\ \A x \in raw_df :
          feed.comp[x.competition].link # 0 =>
              /\ x.points = 0 /\ x.participations = 0
              /\ x.engagements = 0 /\ x.officiels = 0
    /\ \A c \in DOMAIN comp_pages : feed.comp[c].link = 0

\* C15: a linked competition adds nothing to any total of the run: its rows
\* are zero, it has no page, and the total of points on a club's page is that
\* of the unlinked competitions of the club.
C15_SatelliteContributesNothing ==
    /\ C15_RowsAndPagesLeaveSatellitesOut
    /\ \A k \in DOMAIN club_pages : club_pages[k] = PointsOver(ReportedFor(k), k)

\* A club's page whose total holds the points of a linked competition
C15_Witness ==
    /\ "A" \in DOMAIN club_pages
    /\ feed.comp[2].link = 1 /\ 2 \in Range(club_competitions["A"])
    /\ PointsOver({2}, "A") # 0
    /\ club_pages["A"] = PointsOver(ReportedFor("A"), "A") + PointsOver({2}, "A")

\* A score is held for some club in session i of competition c
ScoreHeld(c, i) == reunions[c][i].pts # <<>>

\* The competitions whose file designates m as their master
LinkedTo(m) == {c \in CompetitionIds : feed.comp[c].link = m}

\* C16, the part the code keeps: no score is held while the link loop still
\* has a competition to take up, and in a run over all the competitions a
\* session that holds a score has received every competition linked to it.
C16_FullRunMergesBeforeScoring ==
    /\ (\E c \in DOMAIN reunions : \E i \in DOMAIN reunions[c] : ScoreHeld(c, i))
          => run.link = <<>>
    /\ feed.sel = 0 =>
          \A m \in DOMAIN reunions : \A i \in DOMAIN reunions[m] :
              ScoreHeld(m, i) => LinkedTo(m) \subseteq Range(MergedInto(m))

\* C16: whenever a score is held for a session, the link loop is over and
\* every competition linked to the session's competition has been merged
\* into it.
C16_NoScoreBeforeMerges ==
    /\ (\E c \in DOMAIN reunions : \E i \in DOMAIN reunions[c] : ScoreHeld(c, i))
          => run.link = <<>>
    /\ \A m \in DOMAIN reunions : \A i \in DOMAIN reunions[m] :
          ScoreHeld(m, i) => LinkedTo(m) \subseteq Range(MergedInto(m))

\* The run restricted to competition 1 scores it while competition 2, linked
\* to it with as many sessions, was never taken up
C16_Witness ==
    /\ feed.sel = 1 /\ feed.comp[2].link = 1
    /\ Len(reunions[2]) = Len(reunions[1])
    /\ linked[1] = <<>>
    /\ ScoreHeld(1, 1)
    /\ reunions[1][1].participations = ParsedReunion(1, feed.comp[1], 1).participations

\* The participant identities in the results of club k in session i of
\* competition c
Identities(c, i, k) ==
    IF k \in DOMAIN reunions[c][i].participants
    THEN Range(reunions[c][i].participants[k])
    ELSE {}

----------------------------------------------------------------------------
(* Claims on the JUDGE entries (SpecJudges) *)

\* The JUDGE entries read so far, and the duties they log for an official in
\* a session
Done == SubSeq(judges_in, 1, Len(judges_in) - Len(judges))

Logged(s, id) ==
    {Done[j].role : j \in {x \in DOMAIN Done : Done[x].session = s /\ Done[x].id = id}}

\* The duty of highest score among a set of duties, the lowest index among
\* those of equal score
Best(roles) ==
    CHOOSE p \in roles :
        \A q \in roles \ {p} :
            \/ Score(Postes[p]) > Score(Postes[q])
            \/ Score(Postes[p]) = Score(Postes[q]) /\ p < q

\* C17: whatever the order of the entries read, the duty held by the session
\* record of an official, and the duty credited to the official at the club
\* for the session, is the logged duty of highest score, the lowest index
\* breaking ties.
C17_BestDutyWhateverTheOrder ==
    \A s \in DOMAIN jury :
        /\ DOMAIN jury[s] = {id \in DOMAIN catalog : Logged(s, id) # {}}
        /\ \A id \in DOMAIN jury[s] :
              /\ heap[jury[s][id]].poste = Best(Logged(s, id))
              /\ club_officiels[id][s] = Best(Logged(s, id))

\* Duties 2, 1 and 3 logged in that order for official 1 in session 1:
\* duties 1 and 2 have the same score, duty 1 is credited
C17_Witness ==
    /\ judges = <<>>
    /\ judges_in = <<[session |-> 1, id |-> 1, role |-> 2],
                     [session |-> 1, id |-> 1, role |-> 1],
                     [session |-> 1, id |-> 1, role |-> 3]>>
    /\ Score(Postes[1]) = Score(Postes[2])
    /\ heap[jury[1][1]].poste = 1

\* What a session credits an official with, from the parsed record and the
\* entries of that session alone
Credited(s, id) ==
    LET base == ParsedOfficiels[id]
        up == IF base.niveau.valeur < NiveauC /\ id \in DOMAIN eleves /\ eleves[id] < s
              THEN [base EXCEPT !.niveau = Niveaux.Eleve, !.real_officiel = TRUE]
              ELSE base
        p == Postes[Best(Logged(s, id))]
    IN  [up EXCEPT !.poste = p.index,
                   !.valid = <<p.depart = "Licencie" \/ (p.depart = "Officiel" /\ up.real_officiel),
                               p.regional = "Licencie" \/ (p.regional = "Officiel" /\ up.real_officiel)>>]

\* C18: the record of the catalog keeps the grade, the qualified flag and the
\* absence of duty it was parsed with, and the record of an official in a
\* session is another object, which depends on the entries of that session
\* only.
C18_CatalogRecordUntouched ==
    /\ \A id \in DOMAIN catalog : heap[catalog[id]] = ParsedOfficiels[id]
    /\ \A s \in DOMAIN jury : \A id \in DOMAIN jury[s] :
          /\ jury[s][id] # catalog[id]
          /\ heap[jury[s][id]] = Credited(s, id)

\* The licensee is a trainee from session 2 on: the same duty makes the
\* record of session 2 a valid trainee and leaves that of session 1 and the
\* catalog as they were
C18_Witness ==
    /\ judges = <<>>
    /\ 2 \in DOMAIN eleves /\ eleves[2] = 1
    /\ 2 \in DOMAIN jury[1] /\ 2 \in DOMAIN jury[2]
    /\ heap[jury[1][2]].poste = 1 /\ heap[jury[2][2]].poste = 1
    /\ heap[jury[1][2]].valid = <<FALSE, FALSE>>
    /\ heap[jury[2][2]].valid = <<TRUE, TRUE>>
    /\ heap[jury[2][2]].niveau = niveau_c_next
    /\ heap[catalog[2]] = Officiel(2, Niveaux.Lic)

----------------------------------------------------------------------------
(* Claims on the reduction (SpecReduce) *)

\* The counters of a tally that the reduction derives from the participants
Derived(t) == <<t.participations, t.engagements>>

\* C20, the part the code keeps: a second run of the reduction leaves the
\* participations and the engagements of every club of every session as the
\* first run left them, and in the individual format every counter.
C20_RerunKeepsParticipationsAndEngagements ==
    Len(reduce_log) >= 2 =>
        /\ \A s \in DOMAIN tally : \A k \in DOMAIN tally[s] :
              Derived(reduce_log[2][s][k]) = Derived(reduce_log[1][s][k])
        /\ team_size = 1 => reduce_log[2] = reduce_log[1]

\* C20: a second run of the reduction leaves every counter of every club of
\* every session as the first run left it, in both formats.
C20_RerunChangesNothing ==
    Len(reduce_log) >= 2 => reduce_log[2] = reduce_log[1]

\* One team of club A in the first session of a competition by teams of 4:
\* one team entry after the first run, two after the second
C20_Witness ==
    /\ Len(reduce_log) = 2 /\ team_size = 4
    /\ tally[1]["A"].participants = <<1>>
    /\ reduce_log[1][1]["A"].equipe = 1
    /\ reduce_log[2][1]["A"].equipe = 2
    /\ reduce_log[2][1]["A"].participations = 1

----------------------------------------------------------------------------
(* Further claims on the scoring rule (SpecPoints) *)

\* The qualified officials still missing once the official is added
QualifiedDeficit == scn_res.needed[1] - scn_res.num_ab

\* The added official brings the counted officials up to the number required
Completes == scn_base.num < scn_base.needed[2] /\ scn_res.num >= scn_res.needed[2]

\* C29 as stated: at every level, team size and number of participations, the
\* club scored with one more valid official, of any grade, gets a score
\* greater than or equal to the score it had without that official.
C29_OneMoreValidOfficialNeverLowers ==
    scn_phase = "added" => scn_res.pts >= scn_base.pts

\* C29: one more valid official lowers the score in one case only, when the
\* official completes the required number while three or more qualified
\* officials are missing: the malus of 4 for the missing official is replaced
\* by the malus of 2 per missing qualified official. In every other case the
\* score is greater than or equal to the score without the official.
C29_LowersOnlyWhenCompletingWithoutQualified ==
    scn_phase = "added" =>
        IF Completes /\ QualifiedDeficit >= 3
        THEN /\ scn_base.pts = -4
             /\ scn_res.pts = -2 * QualifiedDeficit
        ELSE scn_res.pts >= scn_base.pts

\* Department competition by teams of 10, 6 teams: 6 officials required, 3 of
\* them qualified; five grade-C officials give -4, a sixth gives -6
C29_Witness ==
    /\ scn_phase = "added" /\ scn.dep
    /\ Added = OffC
    /\ scn_res.needed = <<3, 6>>
    /\ scn_base.num = 5 /\ scn_base.pts = -4
    /\ scn_res.num = 6 /\ scn_res.pts = -6

----------------------------------------------------------------------------
(* Claims on dangling references (SpecLooseJudges) *)

\* The duties logged for an official in a session by entries whose role
\* exists
KnownLogged(s, id) == Logged(s, id) \cap DOMAIN Postes

\* Every official of a session holds the best of the existing duties logged
\* for that official, and only officials of the catalog are in a session
DutiesFromKnownEntries ==
    \A s \in DOMAIN jury : \A id \in DOMAIN jury[s] :
        /\ id \in DOMAIN catalog
        /\ heap[jury[s][id]].poste = Best(KnownLogged(s, id))

\* C25, the part the code keeps: an entry that names an unknown official is
\* skipped with a warning and changes no duty; the parse stops only on an
\* entry that names an unknown duty for an official that exists.
C25_UnknownOfficialIsSkipped ==
    /\ \A j \in DOMAIN Done :
          Done[j].id \notin DOMAIN catalog =>
              \E n \in DOMAIN judge_log :
                  judge_log[n] = <<"officiel", Done[j].id, Done[j].role>>
    /\ DutiesFromKnownEntries
    /\ crashed =>
          /\ Head(judges).role \notin DOMAIN Postes
          /\ Head(judges).id \in DOMAIN catalog

\* C25: an entry that names an unknown official or an unknown duty is logged
\* and skipped: the parse never stops on it, and the duties resolved are
\* those of the other entries.
C25_DanglingEntriesAreSkipped ==
    /\ ~crashed
    /\ \A j \in DOMAIN Done :
          (Done[j].id \notin DOMAIN catalog \/ Done[j].role \notin DOMAIN Postes) =>
              \E n \in DOMAIN judge_log :
                  /\ judge_log[n][2] = Done[j].id
                  /\ judge_log[n][3] = Done[j].role
    /\ DutiesFromKnownEntries

\* Official 1 is logged with a duty that does not exist: the parse stops and
\* the entry that follows is never read
C25_Witness ==
    /\ crashed
    /\ Len(judges) = 2
    /\ judges[1] = [session |-> 1, id |-> 1, role |-> 5]
    /\ judge_log = << <<"poste", 1, 5>> >>
    /\ jury[1] = <<>>

----------------------------------------------------------------------------
(* Further claims on the JUDGE entries (SpecJudges) *)

\* The record of official id in session s is the upgraded one
Upgraded(s, id) ==
    /\ heap[jury[s][id]].niveau = Niveaux.Eleve
    /\ heap[jury[s][id]].real_officiel

\* The record of official id in session s has the grade and the qualified
\* flag of the catalog
AsParsed(s, id) ==
    /\ heap[jury[s][id]].niveau = ParsedOfficiels[id].niveau
    /\ heap[jury[s][id]].real_officiel = ParsedOfficiels[id].real_officiel

\* C28: the record of an official in a session is upgraded exactly when the
\* parsed grade is below C, the official is on the sheet of the trainees and
\* the Chrono date is strictly before the start of that session; otherwise
\* it keeps the parsed grade and flag. The test is made for each session.
C28_UpgradeIffTraineeBeforeSession ==
    \A s \in DOMAIN jury : \A id \in DOMAIN jury[s] :
        IF /\ ParsedOfficiels[id].niveau.valeur < NiveauC
           /\ id \in DOMAIN eleves
           /\ eleves[id] < s
        THEN Upgraded(s, id)
        ELSE AsParsed(s, id) /\ ~Upgraded(s, id)

\* The Chrono date of the licensee falls on the start of session 1: not
\* upgraded in session 1, upgraded in session 2; the grade-B official, on the
\* sheet too, is not upgraded
C28_Witness ==
    /\ judges = <<>>
    /\ eleves = [id \in {1, 2} |-> 1]
    /\ DOMAIN jury[1] = {2} /\ DOMAIN jury[2] = {1, 2}
    /\ AsParsed(1, 2) /\ ~Upgraded(1, 2)
    /\ Upgraded(2, 2)
    /\ AsParsed(2, 1) /\ ~Upgraded(2, 1)

\* The sessions in which an official has a record
SessionsOf(id) == {s \in DOMAIN jury : id \in DOMAIN jury[s]}

\* C30: the duty history of the club has an entry for an official and a
\* session exactly when the official has a record in that session, a single
\* one, and it names the duty that record holds, whatever the entries logged
\* and their order.
C30_HistoryNamesTheCreditedDuty ==
    /\ DOMAIN club_officiels = {id \in DOMAIN catalog : SessionsOf(id) # {}}
    /\ \A id \in DOMAIN club_officiels :
          /\ DOMAIN club_officiels[id] = SessionsOf(id)
          /\ \A s \in SessionsOf(id) :
                club_officiels[id][s] = heap[jury[s][id]].poste

\* Official 1 is logged with duty 3 then duty 4 in session 1 and with duty 2
\* in session 2: the history holds duty 4 and duty 2
C30_Witness ==
    /\ judges = <<>>
    /\ judges_in = <<[session |-> 1, id |-> 1, role |-> 3],
                     [session |-> 1, id |-> 1, role |-> 4],
                     [session |-> 2, id |-> 1, role |-> 2]>>
    /\ DOMAIN club_officiels = {1}
    /\ club_officiels[1][1] = 4 /\ club_officiels[1][2] = 2

----------------------------------------------------------------------------
(* Claims on the RESULT elements (SpecResults) *)

\* The RESULT elements read so far
Seen == SubSeq(ffnex.results, 1, Len(ffnex.results) - Len(todo))

\* The RESULT elements read so far that carry the club id k
SeenOf(k) == SelectSeq(Seen, LAMBDA e : e.clubid = k)

RECURSIVE Swimmers(_)
\* The swimmers of the records of a list of results, in the order read
Swimmers(q) == IF q = <<>> THEN <<>> ELSE Roster(Head(q)) \o Swimmers(Tail(q))

Reading == stage \in {"results", "counted"}

\* C21: every result whose disqualification code is tracked increments the
\* counter of that code for its club exactly once, final or not, whatever
\* the record and the format: the counter of a club of the list equals the
\* number of results read with that club id and that code.
C21_ForfeitsCountedOncePerResult ==
    Reading =>
        \A k \in DOMAIN counts : \A d \in Forfaits :
            counts[k].forfaits[d] = Len(SelectSeq(SeenOf(k), LAMBDA e : e.disq = d))

\* C21: every solo result of a competition that is not by team is counted,
\* final or not.
C21_SoloForfeitsCounted ==
    (Reading /\ equipe = 1) =>
        \A k \in DOMAIN counts : \A d \in Forfaits :
            counts[k].forfaits[d] >=
                Len(SelectSeq(SeenOf(k), LAMBDA e : e.disq = d /\ e.kind = "SOLO"))

\* C21: a relay of a final, forfeited with a medical certificate, has been
\* read for club B of a competition that is not by team, and the counter of
\* the club is still zero.
C21_Witness ==
    /\ stage = "counted"
    /\ ~ffnex.byteam
    /\ Len(ffnex.results) = 1
    /\ ffnex.results[1] = [clubid |-> "B", kind |-> "RELAY", final |-> TRUE, disq |-> 1]
    /\ counts["B"].engagements = 2
    /\ counts["B"].forfaits[1] = 0

\* C22: in a competition that is not by team, the swimmers of every result
\* whose club id names a club of the competition's list are added to that
\* club, one engagement each, and to no other club, whatever club the
\* swimmers were declared with.
C22_CreditsTheResultClubOfTheList ==
    (Reading /\ equipe = 1) =>
        \A k \in DOMAIN counts :
            /\ counts[k].participants = Swimmers(SeenOf(k))
            /\ counts[k].engagements = Len(Swimmers(SeenOf(k)))

\* C22: in a competition that is not by team, the swimmers of every result
\* whose club id names a club of the catalog are added to that club.
C22_CreditsEveryCatalogClub ==
    (Reading /\ equipe = 1) =>
        \A k \in CatalogClubs :
            SeenOf(k) # <<>> =>
                /\ k \in DOMAIN counts
                /\ counts[k].participants = Swimmers(SeenOf(k))

\* C22: a solo of swimmer 1, declared with club A, has been read with the
\* club id of B: B holds the swimmer and A holds nothing.
C22_Witness ==
    /\ Reading
    /\ equipe = 1
    /\ nageurs[1] = "A"
    /\ Len(Seen) = 1
    /\ Seen[1].kind = "SOLO"
    /\ Seen[1].clubid = "B"
    /\ counts["B"].participants = <<1>>
    /\ counts["B"].engagements = 1
    /\ counts["A"].participants = <<>>

\* No relay of the file gives the size of the teams
NoTeamSize == ffnex.byteam /\ SizeGivers(ffnex.results) = <<>>

\* C23: a competition by team in which no relay gives the size of the teams
\* is never aggregated: once the size has been looked for, nothing is read
\* into the tallies of its clubs.
C23_NoTeamSizeIsFatal ==
    (NoTeamSize /\ stage # "size") =>
        /\ stage # "counted"
        /\ \A k \in DOMAIN counts : counts[k] = NoCounts

\* C23: the size of the teams was not found and the error was logged, yet
\* the solo of club B has been counted as in a competition that is not by
\* team.
C23_Witness ==
    /\ NoTeamSize
    /\ stage = "counted"
    /\ results_log = <<"taille">>
    /\ Len(ffnex.results) = 1
    /\ ffnex.results[1].kind = "SOLO"
    /\ ffnex.results[1].clubid = "B"
    /\ counts["B"].participations = 1
    /\ counts["B"].individuel = 1

\* The results read so far that were left out of the tallies of every club
Dropped ==
    SelectSeq(Seen, LAMBDA e : e.clubid \notin DOMAIN counts)

\* C27: no result is dropped silently: every result left out of the
\* tallies (club id unknown to the catalog, club not on the list of the
\* competition) has a line in the log.
C27_NoResultDroppedSilently ==
    Reading => Len(results_log) >= Len(Dropped)

\* C27: a solo whose club id the catalog does not know has been read in a
\* competition that is not by team: no tally holds it and the log is empty.
C27_Witness ==
    /\ stage = "counted"
    /\ ~ffnex.byteam
    /\ Len(ffnex.results) = 1
    /\ ffnex.results[1].kind = "SOLO"
    /\ ffnex.results[1].clubid = "X"
    /\ \A k \in DOMAIN counts : counts[k].participants = <<>>
    /\ results_log = <<>>

----------------------------------------------------------------------------
(* Claims on the files of the run (SpecFiles) *)

\* The files that Competition.__init__ gives up on
Unreadable == {i \in DOMAIN ffnex_files : ffnex_files[i].kind \in {"sans_ffnex", "illisible"}}

\* The files handed to Competition so far
Handed == 1 .. (unread - 1)

\* C24: an archive without ffnex.xml, or one that cannot be read, is logged
\* and skipped, and the batch continues: the file adds no competition to the
\* list of the run and the run does not stop on it.
C24_UnreadableArchiveIsSkipped ==
    \A i \in Unreadable \cap Handed :
        /\ <<"archive", i>> \in Range(main_log)
        /\ \A j \in DOMAIN competitions : competitions[j].filename # i
        /\ outcome # "crashed"

\* C24: the error of an archive that is given up on is logged.
C24_UnreadableArchiveIsLogged ==
    \A i \in Unreadable \cap Handed : <<"archive", i>> \in Range(main_log)

\* C24: of two files the first is an archive without ffnex.xml: its error
\* is logged, both files are in the list of the run, and the run has stopped
\* on the check of the ids with nothing linked or reported.
C24_Witness ==
    /\ Len(ffnex_files) = 2
    /\ ffnex_files[1].kind = "sans_ffnex"
    /\ ffnex_files[2].kind = "xml"
    /\ main_log = << <<"archive", 1>> >>
    /\ Len(competitions) = 2
    /\ outcome = "crashed"

\* The ids that more than one of the competitions of the run carry
Repeated ==
    {v \in MeetIds :
        Cardinality({i \in DOMAIN competitions :
                        "id" \in DOMAIN competitions[i] /\ competitions[i].id = v}) > 1}

====
